---- MODULE Spec2Model ----
(***************************************************************************)
(* A model of the Yelp API client of src/yelp/yelp.go: the cached access   *)
(* token of the client's credentials, the token exchange (FetchToken,      *)
(* postForm) and the authenticated request (Search, BusinessByID,          *)
(* authedDo), as a state machine with one action per network call or       *)
(* store of the code.                                                       *)
(*                                                                         *)
(* Credentials and SearchOptions are declared in files of the package that *)
(* are not part of src/; their IsValid predicates follow the package's     *)
(* specification (sections 3, 4.1 and 8).                                  *)
(***************************************************************************)
EXTENDS Integers, Sequences, FiniteSets, TLC

\* The clock of the model runs from 0 to MaxTime seconds.
MaxTime == 3

\* time.Second: the number of nanoseconds of a second (a time.Duration is a
\* signed 64-bit count of nanoseconds).
Second == 1000000000

\* The goroutines that may call the client.
Procs == {1, 2}

(***************************************************************************)
(* 64-bit arithmetic.  A nanosecond count does not fit TLC's integers, so  *)
(* an integer x is held as four digits in radix Second = 10^9,             *)
(*   x = d[1] + d[2]*10^9 + d[3]*10^18 + d[4]*10^27,                       *)
(* with 0 <= d[1], d[2], d[3] < 10^9 and d[4] any (small) integer carrying *)
(* the sign.  In this radix multiplying by time.Second is a shift.         *)
(***************************************************************************)
WNorm(d) ==
    LET c1 == d[1] \div Second
        e2 == d[2] + c1
        c2 == e2 \div Second
        e3 == d[3] + c2
        c3 == e3 \div Second
    IN  <<d[1] % Second, e2 % Second, e3 % Second, d[4] + c3>>

WAdd(x, y) == WNorm(<<x[1] + y[1], x[2] + y[2], x[3] + y[3], x[4] + y[4]>>)

WSub(x, y) == WNorm(<<x[1] - y[1], x[2] - y[2], x[3] - y[3], x[4] - y[4]>>)

WZero == <<0, 0, 0, 0>>

WNeg(x) == WSub(WZero, x)

WLess(x, y) == WSub(x, y)[4] < 0

\* The integer hi*10^9 + lo.
Wide(hi, lo) == WNorm(<<lo, hi, 0, 0>>)

\* 2^63 and 2^64.
Pow63 == <<854775808, 223372036, 9, 0>>

Pow64 == <<709551616, 446744073, 18, 0>>

\* x mod m for x >= 0 and m > 0, by reducing modulo 2m first.
RECURSIVE WModPos(_, _)
WModPos(x, m) ==
    IF WLess(x, m) THEN x
    ELSE LET r == WModPos(x, WAdd(m, m))
         IN  IF WLess(r, m) THEN r ELSE WSub(r, m)

\* x mod m, in 0 .. m-1, for any x.
WMod(x, m) ==
    IF ~WLess(x, WZero) THEN WModPos(x, m)
    ELSE LET r == WModPos(WNeg(x), m)
         IN  IF r = WZero THEN WZero ELSE WSub(m, r)

\* The value an int64 holds after an arithmetic result x: x modulo 2^64, in
\* -2^63 .. 2^63-1.
WrapInt64(x) ==
    LET u == WMod(x, Pow64)
    IN  IF WLess(u, Pow63) THEN u ELSE WSub(u, Pow64)

\* x * 10^9, unbounded (for |x| < 2 * 10^27).
MulSecond(x) == WNorm(<<0, x[1], x[2], x[3] + x[4] * Second>>)

\* The instant of second t of the model's clock, in nanoseconds.
TimeOf(t) == <<0, t, 0, 0>>

\* The zero time.Time (January 1, year 1), 62135596800 seconds before the
\* epoch the clock counts from.
ZeroTime == MulSecond(Wide(-63, 864403200))

(***************************************************************************)
(* The inputs: what callers pass and what the remote host answers.         *)
(***************************************************************************)
\* access_token values of a token response ("" : the field is absent or empty).
TokenValues == {"", "T1", "T2"}

\* expires_in values of a token response, in seconds (0: the field is absent).
\* 9223372036 is the largest number of seconds whose nanoseconds fit an int64.
ExpiresInValues ==
    {Wide(0, -1), Wide(0, 0), Wide(0, 1), Wide(0, 2),
     Wide(9, 223372036), Wide(9, 223372037)}

\* The answers of the token endpoint: a 200 with a token object, a 401 with an
\* error object (none of the three fields present), or a body that is not JSON.
TokenResponses ==
    {[StatusCode |-> 200, Status |-> "200 OK", json |-> TRUE,
      access_token |-> t, expires_in |-> n] :
        t \in TokenValues, n \in ExpiresInValues}
    \cup
    {[StatusCode |-> 401, Status |-> "401 Unauthorized", json |-> TRUE,
      access_token |-> "", expires_in |-> WZero]}
    \cup
    {[StatusCode |-> c[1], Status |-> c[2], json |-> FALSE,
      access_token |-> "", expires_in |-> WZero] :
        c \in {<<200, "200 OK">>, <<401, "401 Unauthorized">>}}

\* The answers of the search and business endpoints.
ApiResponses ==
    {[StatusCode |-> c[1], Status |-> c[2], json |-> j] :
        c \in {<<200, "200 OK">>, <<404, "404 Not Found">>}, j \in BOOLEAN}

\* SearchOptions values, by the two fields their validity reads.
SearchOptionsValues ==
    [Location : {"", "NYC"}, HasCoordinates : BOOLEAN]

\* Business ids; "%zz" makes a URL that http.NewRequest cannot parse.
BusinessIDs == {"b1", "%zz"}

(***************************************************************************)
(* The state.                                                              *)
(***************************************************************************)
VARIABLES
    callers,      \* the goroutines that call the client in this run
    now,          \* the clock, in seconds
    credentials,  \* client.credentials: [AccessToken, ExpiryDate]
    pc,           \* where each goroutine is in its operation
    call          \* each goroutine's operation: its locals and what it did

vars == <<callers, now, credentials, pc, call>>

NilErr == "<nil>"

ValidationError ==
    "SearchOptions provided is not valid. Please see yelp/search.go for more details."

TransportError == "transport error"

DecodeError == "json decode error"

URLError == "invalid URL escape"

NoTokenResponse ==
    [StatusCode |-> 0, Status |-> "", json |-> FALSE,
     access_token |-> "", expires_in |-> WZero]

NoApiResponse == [StatusCode |-> 0, Status |-> "", json |-> FALSE]

TokenRequest == [kind |-> "token", Authorization |-> ""]

ApiRequest(h) == [kind |-> "api", Authorization |-> h]

\* The locals of an operation that has not started.
NoCall ==
    [op           |-> "none",
     options      |-> [Location |-> "", HasCoordinates |-> FALSE],
     businessID   |-> "",
     before       |-> [AccessToken |-> "", ExpiryDate |-> ZeroTime],
     checked      |-> "none",     \* what line 91 found: "valid" / "invalid"
     sent         |-> <<>>,       \* the requests sent, in order
     tokenOutcome |-> "none",     \* "transportError" / "response"
     tokenResp    |-> NoTokenResponse,
     tokenBody    |-> "none",     \* "open" / "closed"
     tokenDecoded |-> FALSE,
     respBody     |-> [AccessToken |-> "", ExpiresIn |-> WZero],
     storedAt     |-> -1,         \* time.Now() of line 62
     authValid    |-> "none",     \* the credentials when the request was sent
     torn         |-> FALSE,      \* read the credentials between line 61 and 62
     apiOutcome   |-> "none",
     apiResp      |-> NoApiResponse,
     apiBody      |-> "none",
     apiDecoded   |-> FALSE,
     err          |-> NilErr,
     result       |-> "zero"]     \* the returned value: "zero" / "decoded"

(***************************************************************************)
(* The predicates and expressions of the code.                             *)
(***************************************************************************)
\* Credentials.IsValid at time t: the token is set and t is before the expiry.
IsValid(c, t) == c.AccessToken # "" /\ WLess(TimeOf(t), c.ExpiryDate)

\* SearchOptions.IsValid: a location string or coordinates are present.
SearchOptionsIsValid(o) == o.Location # "" \/ o.HasCoordinates

SearchNeverRejects(o) == FALSE

\* Search, line 69.
SearchRejects(o) == ~SearchOptionsIsValid(o)

AlwaysFetch(c, t) == TRUE

NeverFetch(c, t) == FALSE

\* authedDo, line 91.
NeedsFetch(c, t) == ~IsValid(c, t)

\* time.Duration(respBody.ExpiresIn) * time.Second, in int64.
DurationOf(n) == WrapInt64(MulSecond(n))

\* time.Now().Add(...) of line 62, at time t.
ExpiryOf(t, n) == WAdd(TimeOf(t), DurationOf(n))

\* json decoding of the token response into respBody.
DecodedToken(r) == [AccessToken |-> r.access_token, ExpiresIn |-> r.expires_in]

AuthorizationHeaderBare(c) == c.AccessToken

\* The Authorization header of line 105.
AuthorizationHeader(c) == "Bearer " \o c.AccessToken

StatusAlwaysOK(r) == TRUE

\* Line 114.
StatusOK(r) == r.StatusCode = 200

\* Line 115.
StatusError(r) == "Yelp request failed with status " \o r.Status

\* http.NewRequest of line 97 fails when the URL does not parse.
NewRequestFails(f) == f.op = "BusinessByID" /\ f.businessID = "%zz"

CloseLeak(b) == b

\* The deferred resp.Body.Close() of lines 112 and 129-133.
Close(b) == "closed"

OnFetchErrorContinue(o) == IF o = "FetchToken" THEN "done" ELSE "do"

\* Where FetchToken's failure leads: its caller gets the error (line 58), and
\* authedDo returns it without making the request (lines 92-94).
OnFetchError(o) == "done"

\* What is drawn in a run with the callers C. With one caller every input
\* above is drawn; with two goroutines interleaving, the answers that differ
\* only in how a single operation ends are left out.
Concurrent(C) == Cardinality(C) > 1

TokenResponsesFor(C) ==
    IF ~Concurrent(C) THEN TokenResponses
    ELSE {r \in TokenResponses :
            /\ r.StatusCode = 200
            /\ r.json => (r.access_token # "" /\ r.expires_in = Wide(0, 1))}

ApiResponsesFor(C) ==
    IF ~Concurrent(C) THEN ApiResponses
    ELSE {r \in ApiResponses : r.json = StatusOK(r)}

SearchOptionsFor(C) ==
    IF ~Concurrent(C) THEN SearchOptionsValues
    ELSE {o \in SearchOptionsValues : o.HasCoordinates = (o.Location # "")}

BusinessIDsFor(C) == IF ~Concurrent(C) THEN BusinessIDs ELSE {"b1"}

\* The last second of the clock: with two goroutines one tick, which lets a
\* token of one second expire.
Horizon(C) == IF ~Concurrent(C) THEN MaxTime ELSE 1

\* Another goroutine has stored the new AccessToken (line 61) and not yet the
\* new ExpiryDate (line 62).
MidUpdate(p) == \E q \in Procs \ {p} : pc[q] = "storeExpiry"

(***************************************************************************)
(* Init: New(c, credentials) with credentials that hold no token yet.      *)
(***************************************************************************)
InitWith(C) ==
    /\ callers = C
    /\ now = 0
    /\ credentials = [AccessToken |-> "", ExpiryDate |-> ZeroTime]
    /\ pc = [p \in Procs |-> "idle"]
    /\ call = [p \in Procs |-> NoCall]

\* One caller: the call pattern the package is written for.
Init == InitWith({1})

\* Two goroutines sharing the client.
InitConcurrent == InitWith(Procs)

(***************************************************************************)
(* The actions.                                                            *)
(***************************************************************************)
\* Time passes.
Tick ==
    /\ now < Horizon(callers)
    /\ now' = now + 1
    /\ UNCHANGED <<callers, credentials, pc, call>>

\* A caller calls FetchToken (lines 50-56): the token request is next.
CallFetchToken(p) ==
    /\ p \in callers
    /\ pc[p] = "idle"
    /\ pc' = [pc EXCEPT ![p] = "postForm"]
    /\ call' = [call EXCEPT ![p] =
                 [NoCall EXCEPT !.op = "FetchToken", !.before = credentials]]
    /\ UNCHANGED <<callers, now, credentials>>

\* The entry of authedDo (lines 90-95) for the operation f: the credentials
\* are read and decide whether a token is fetched first.
AuthedDo(p, f) ==
    /\ pc' = [pc EXCEPT ![p] =
               IF NeedsFetch(credentials, now) THEN "postForm" ELSE "do"]
    /\ call' = [call EXCEPT ![p] =
                 [f EXCEPT !.before = credentials,
                           !.checked = IF IsValid(credentials, now)
                                       THEN "valid" ELSE "invalid",
                           !.torn = MidUpdate(p)]]

\* A caller calls Search(o) (lines 67-74).
CallSearch(p, o) ==
    /\ p \in callers
    /\ pc[p] = "idle"
    /\ IF SearchRejects(o)
       THEN /\ pc' = [pc EXCEPT ![p] = "done"]
            /\ call' = [call EXCEPT ![p] =
                         [NoCall EXCEPT !.op = "Search", !.options = o,
                                        !.before = credentials,
                                        !.err = ValidationError]]
       ELSE AuthedDo(p, [NoCall EXCEPT !.op = "Search", !.options = o])
    /\ UNCHANGED <<callers, now, credentials>>

\* A caller calls BusinessByID(b) (lines 79-83).
CallBusinessByID(p, b) ==
    /\ p \in callers
    /\ pc[p] = "idle"
    /\ AuthedDo(p, [NoCall EXCEPT !.op = "BusinessByID", !.businessID = b])
    /\ UNCHANGED <<callers, now, credentials>>

\* postForm, line 125: the token request is sent; the transport fails, or a
\* response arrives and its body is open.
PostForm(p) ==
    /\ pc[p] = "postForm"
    /\ \/ /\ pc' = [pc EXCEPT ![p] = OnFetchError(call[p].op)]
          /\ call' = [call EXCEPT ![p] =
                       [@ EXCEPT !.sent = Append(@, TokenRequest),
                                 !.tokenOutcome = "transportError",
                                 !.err = TransportError]]
       \/ \E r \in TokenResponsesFor(callers) :
            /\ pc' = [pc EXCEPT ![p] = "decodeToken"]
            /\ call' = [call EXCEPT ![p] =
                         [@ EXCEPT !.sent = Append(@, TokenRequest),
                                   !.tokenOutcome = "response",
                                   !.tokenResp = r,
                                   !.tokenBody = "open"]]
    /\ UNCHANGED <<callers, now, credentials>>

\* postForm, lines 129-136, and FetchToken, lines 57-59: the body is decoded
\* into respBody, whatever the status, and closed; a decode error is returned.
DecodeToken(p) ==
    /\ pc[p] = "decodeToken"
    /\ LET r == call[p].tokenResp IN
       IF r.json
       THEN /\ pc' = [pc EXCEPT ![p] = "storeToken"]
            /\ call' = [call EXCEPT ![p] =
                         [@ EXCEPT !.tokenDecoded = TRUE,
                                   !.tokenBody = Close(@),
                                   !.respBody = DecodedToken(r)]]
       ELSE /\ pc' = [pc EXCEPT ![p] = OnFetchError(call[p].op)]
            /\ call' = [call EXCEPT ![p] =
                         [@ EXCEPT !.tokenDecoded = TRUE,
                                   !.tokenBody = Close(@),
                                   !.err = DecodeError]]
    /\ UNCHANGED <<callers, now, credentials>>

\* FetchToken, line 61.
StoreToken(p) ==
    /\ pc[p] = "storeToken"
    /\ credentials' =
         [credentials EXCEPT !.AccessToken = call[p].respBody.AccessToken]
    /\ pc' = [pc EXCEPT ![p] = "storeExpiry"]
    /\ UNCHANGED <<callers, now, call>>

\* FetchToken, lines 62-63: the expiry is stored and FetchToken returns nil,
\* to its caller or into authedDo.
StoreExpiry(p) ==
    /\ pc[p] = "storeExpiry"
    /\ credentials' =
         [credentials EXCEPT
            !.ExpiryDate = ExpiryOf(now, call[p].respBody.ExpiresIn)]
    /\ pc' = [pc EXCEPT ![p] =
               IF call[p].op = "FetchToken" THEN "done" ELSE "do"]
    /\ call' = [call EXCEPT ![p] = [@ EXCEPT !.storedAt = now]]
    /\ UNCHANGED <<callers, now>>

\* authedDo, lines 97-110: the request is built with the Authorization header
\* and sent; the transport fails, or a response arrives and its body is open.
Do(p) ==
    /\ pc[p] = "do"
    /\ IF NewRequestFails(call[p])
       THEN /\ pc' = [pc EXCEPT ![p] = "done"]
            /\ call' = [call EXCEPT ![p] = [@ EXCEPT !.err = URLError]]
       ELSE LET f == [call[p] EXCEPT
                        !.sent = Append(@, ApiRequest(AuthorizationHeader(credentials))),
                        !.authValid = IF IsValid(credentials, now)
                                      THEN "valid" ELSE "invalid",
                        !.torn = @ \/ MidUpdate(p)]
            IN  \/ /\ pc' = [pc EXCEPT ![p] = "done"]
                   /\ call' = [call EXCEPT ![p] =
                                [f EXCEPT !.apiOutcome = "transportError",
                                          !.err = TransportError]]
                \/ \E r \in ApiResponsesFor(callers) :
                     /\ pc' = [pc EXCEPT ![p] = "response"]
                     /\ call' = [call EXCEPT ![p] =
                                  [f EXCEPT !.apiOutcome = "response",
                                            !.apiResp = r,
                                            !.apiBody = "open"]]
    /\ UNCHANGED <<callers, now, credentials>>

\* authedDo, lines 112-119: a status other than 200 is an error and the body
\* is not read; a 200 body is decoded into the result. The body is closed.
HandleResponse(p) ==
    /\ pc[p] = "response"
    /\ pc' = [pc EXCEPT ![p] = "done"]
    /\ LET r == call[p].apiResp IN
       call' = [call EXCEPT ![p] =
         IF ~StatusOK(r)
         THEN [@ EXCEPT !.apiBody = Close(@), !.err = StatusError(r)]
         ELSE [@ EXCEPT !.apiBody = Close(@),
                        !.apiDecoded = TRUE,
                        !.err = IF r.json THEN NilErr ELSE DecodeError,
                        !.result = IF r.json THEN "decoded" ELSE "zero"]]
    /\ UNCHANGED <<callers, now, credentials>>

\* The operation returns to its caller.
Return(p) ==
    /\ pc[p] = "done"
    /\ pc' = [pc EXCEPT ![p] = "idle"]
    /\ call' = [call EXCEPT ![p] = NoCall]
    /\ UNCHANGED <<callers, now, credentials>>

Next ==
    \/ Tick
    \/ \E p \in Procs : CallFetchToken(p)
    \/ \E p \in Procs, o \in SearchOptionsFor(callers) : CallSearch(p, o)
    \/ \E p \in Procs, b \in BusinessIDsFor(callers) : CallBusinessByID(p, b)
    \/ \E p \in Procs : PostForm(p)
    \/ \E p \in Procs : DecodeToken(p)
    \/ \E p \in Procs : StoreToken(p)
    \/ \E p \in Procs : StoreExpiry(p)
    \/ \E p \in Procs : Do(p)
    \/ \E p \in Procs : HandleResponse(p)
    \/ \E p \in Procs : Return(p)

Spec == Init /\ [][Next]_vars

SpecConcurrent == InitConcurrent /\ [][Next]_vars

(***************************************************************************)
(* The properties.                                                         *)
(***************************************************************************)
Authed(f) == f.op \in {"Search", "BusinessByID"}

HasToken(s) == \E i \in 1..Len(s) : s[i].kind = "token"

HasApi(s) == \E i \in 1..Len(s) : s[i].kind = "api"

\* The token exchange of the operation f failed: the transport failed, the
\* token endpoint answered with a status other than 200, or the body is not
\* decodable.
ExchangeFailed(f) ==
    \/ f.tokenOutcome = "transportError"
    \/ /\ f.tokenOutcome = "response"
       /\ (f.tokenResp.StatusCode # 200 \/ ~f.tokenResp.json)

\* FetchToken returned an error to the operation f.
FetchReturnedError(f) ==
    \/ f.tokenOutcome = "transportError"
    \/ f.tokenOutcome = "response" /\ f.tokenDecoded /\ ~f.tokenResp.json

\* C1: an authenticated call that finds the token absent or expired sends
\* exactly one token request, first, and the API request it then sends carries
\* "Bearer " followed by the token that fetch returned.
C1_FetchPrecedesRequest ==
    \A p \in callers :
        LET f == call[p] IN
        (Authed(f) /\ f.checked = "invalid") =>
            /\ pc[p] # "postForm" => (f.sent # <<>> /\ f.sent[1] = TokenRequest)
            /\ Len(f.sent) <= 2
            /\ \A i \in 2..Len(f.sent) :
                 f.sent[i] = ApiRequest("Bearer " \o f.respBody.AccessToken)

C1_Witness ==
    \E p \in callers :
        /\ pc[p] = "done" /\ Authed(call[p]) /\ call[p].checked = "invalid"
        /\ call[p].tokenResp.access_token = "T1"
        /\ call[p].sent = <<TokenRequest, ApiRequest("Bearer T1")>>
        /\ call[p].err = NilErr

\* C2: whenever the token exchange fails (transport failure, non-200 status
\* of the token endpoint, undecodable body), FetchToken returns an error and
\* the stored token and expiry are what they were before the call.
C2_FailedExchangeReturnsError ==
    \A p \in callers :
        LET f == call[p] IN
        (f.op = "FetchToken" /\ pc[p] = "done" /\ ExchangeFailed(f)) =>
            /\ f.err # NilErr
            /\ credentials = f.before

\* C3: Search with options that have neither a location nor coordinates
\* returns the validation error, sends no request and leaves the stored token
\* and expiry unchanged.
C3_InvalidSearchIsLocal ==
    \A p \in callers :
        LET f == call[p] IN
        (f.op = "Search" /\ f.options.Location = "" /\ ~f.options.HasCoordinates) =>
            /\ pc[p] = "done"
            /\ f.err = ValidationError
            /\ f.result = "zero"
            /\ f.sent = <<>>
            /\ credentials = f.before

C3_Witness ==
    \E p \in callers :
        /\ pc[p] = "done" /\ call[p].op = "Search"
        /\ call[p].options = [Location |-> "", HasCoordinates |-> FALSE]
        /\ call[p].err = ValidationError
        /\ credentials.AccessToken = "T1" /\ IsValid(credentials, now)

\* C4: after a FetchToken that succeeds at time t0 with a non-empty
\* access_token and expires_in = n, the stored expiry is t0 + n seconds: the
\* credentials are valid at every t with t0 <= t < t0 + n and at no t >= t0 + n.
C4_ExpiryIsNowPlusExpiresIn ==
    \A p \in callers :
        LET f == call[p] IN
        (/\ f.op = "FetchToken" /\ pc[p] = "done" /\ f.err = NilErr
         /\ f.respBody.AccessToken # "") =>
            LET exact == WAdd(TimeOf(f.storedAt), MulSecond(f.respBody.ExpiresIn))
            IN  /\ credentials.ExpiryDate = exact
                /\ \A t \in f.storedAt..(MaxTime + 3) :
                     IsValid(credentials, t) <=> WLess(TimeOf(t), exact)

\* What holds of line 62: the same, for every expires_in whose nanoseconds
\* fit an int64 (at most 9223372036 seconds in absolute value).
ExpiryExactWithinInt64 ==
    \A p \in callers :
        LET f == call[p]
            n == f.respBody.ExpiresIn
        IN
        (/\ f.op = "FetchToken" /\ pc[p] = "done" /\ f.err = NilErr
         /\ f.respBody.AccessToken # ""
         /\ WLess(n, Wide(9, 223372037)) /\ WLess(Wide(-9, -223372037), n)) =>
            LET exact == WAdd(TimeOf(f.storedAt), MulSecond(n))
            IN  /\ credentials.ExpiryDate = exact
                /\ \A t \in f.storedAt..(MaxTime + 3) :
                     IsValid(credentials, t) <=> WLess(TimeOf(t), exact)

\* C5: when the API request is answered with a status other than 200, the
\* operation returns an error whose text includes the status, the body is not
\* decoded and the result is the zero value.
C5_StatusErrorNoDecode ==
    \A p \in callers :
        LET f == call[p] IN
        (/\ Authed(f) /\ pc[p] = "done" /\ f.apiOutcome = "response"
         /\ f.apiResp.StatusCode # 200) =>
            /\ f.err # NilErr
            /\ f.err = "Yelp request failed with status " \o f.apiResp.Status
            /\ ~f.apiDecoded
            /\ f.result = "zero"

C5_Witness ==
    \E p \in callers :
        /\ pc[p] = "done" /\ call[p].op = "BusinessByID"
        /\ call[p].apiResp.StatusCode = 404
        /\ call[p].err = "Yelp request failed with status 404 Not Found"

C7_ValidTokenNoFetch ==
    \A p \in callers :
        LET f == call[p] IN
        /\ (Authed(f) /\ f.checked = "valid") =>
             /\ ~HasToken(f.sent)
             /\ pc[p] \in {"do", "response", "done"}
             /\ credentials = f.before
        /\ (f.op # "none" /\ credentials # f.before) =>
             /\ f.tokenDecoded /\ f.tokenResp.json
             /\ pc[p] \in {"storeExpiry", "do", "response", "done"}

C7_Witness ==
    \E p \in callers :
        /\ pc[p] = "done" /\ Authed(call[p]) /\ call[p].checked = "valid"
        /\ call[p].apiResp.StatusCode = 404
        /\ call[p].sent = <<ApiRequest("Bearer T2")>>
        /\ credentials = call[p].before

\* C8: with two goroutines the check-then-refresh sequence is unguarded.
\* Every caller that finds the token invalid sends a token request of its own,
\* whatever the other caller is doing, and line 61 publishes the new access
\* token while the expiry is still the old one; so both callers can fetch, and
\* a caller can read the credentials between the two stores (the witness).
C8_UnguardedRefresh ==
    /\ [](\A p \in callers :
            (Authed(call[p]) /\ call[p].checked = "invalid" /\ pc[p] # "postForm") =>
                (call[p].sent # <<>> /\ call[p].sent[1] = TokenRequest))
    /\ [][\A p \in callers :
            (pc[p] = "storeToken" /\ pc'[p] = "storeExpiry") =>
                /\ credentials'.AccessToken = call[p].respBody.AccessToken
                /\ credentials'.ExpiryDate = credentials.ExpiryDate]_vars

\* Both callers have sent a token request for the same expired token, and q
\* sends p's new token, read after p's line 61 and before p's line 62.
C8_Witness ==
    \E p, q \in callers :
        /\ p # q
        /\ Authed(call[p]) /\ call[p].checked = "invalid"
        /\ Authed(call[q]) /\ call[q].checked = "invalid"
        /\ call[p].before = call[q].before
        /\ pc[p] = "storeExpiry"
        /\ call[p].respBody.AccessToken = "T1"
        /\ call[q].respBody.AccessToken = "T2"
        /\ call[q].torn
        /\ call[q].sent = <<TokenRequest, ApiRequest("Bearer T1")>>

\* C9 as stated: every response body that was opened has been decoded and
\* closed when the operation returns.
C9_BodiesConsumedAndReleased ==
    \A p \in callers :
        LET f == call[p] IN
        pc[p] = "done" =>
            /\ f.tokenBody # "none" => (f.tokenBody = "closed" /\ f.tokenDecoded)
            /\ f.apiBody # "none" => (f.apiBody = "closed" /\ f.apiDecoded)

\* C9, amended: every response body that was opened is closed when the
\* operation returns; it has been decoded, except the body of an API response
\* whose status is not 200, which is closed without being read.
C9_BodiesReleased ==
    \A p \in callers :
        LET f == call[p] IN
        /\ f.tokenOutcome = "response" =>
             f.tokenBody = IF pc[p] = "decodeToken" THEN "open" ELSE "closed"
        /\ f.apiOutcome = "response" =>
             f.apiBody = IF pc[p] = "response" THEN "open" ELSE "closed"
        /\ pc[p] = "done" =>
             /\ f.tokenBody \in {"none", "closed"}
             /\ f.tokenBody = "closed" => f.tokenDecoded
             /\ f.apiBody \in {"none", "closed"}
             /\ f.apiBody = "closed" => (f.apiDecoded <=> f.apiResp.StatusCode = 200)

C9_Witness ==
    \E p \in callers :
        /\ pc[p] = "done" /\ Authed(call[p])
        /\ call[p].tokenBody = "closed" /\ call[p].tokenDecoded
        /\ call[p].apiResp.StatusCode = 404
        /\ call[p].apiBody = "closed" /\ ~call[p].apiDecoded

\* C10: every API request is sent with an Authorization header built from a
\* token that is valid when the request is sent, whatever the token endpoint
\* answered.
C10_RequestsCarryValidToken ==
    \A p \in callers :
        LET f == call[p] IN
        HasApi(f.sent) => f.authValid = "valid"

====
